---- MODULE Spec2Model ----
(***************************************************************************)
(* Model of tarexporter.Load (image/tarexport/load.go): the import of an   *)
(* image archive, in the manifest format and in the legacy per-directory   *)
(* format, into the image store, the layer store and the reference store.  *)
(*                                                                         *)
(* Content hashes are modelled by what they identify: a diff-id is a name, *)
(* a ChainID is the ordered sequence of diff-ids it folds, an image id is  *)
(* the image configuration it is the digest of.                            *)
(***************************************************************************)
EXTENDS Naturals, Sequences, FiniteSets, TLC

\* ---------------------------------------------------------------- bounds
MaxEntries == 2
MaxDepth == 3
MaxHist == 2

\* ------------------------------------------------------------ data model
\* One History entry; Created = 0 is the nil pointer.
H(created, by) == [Created |-> created, CreatedBy |-> by]

\* An image configuration; its digest (the image id) is modelled by the
\* configuration itself.
Img(n, o, a, d, h) == [name |-> n, os |-> o, arch |-> a, diffIDs |-> d, history |-> h]

\* The empty image id "".
NoID == Img("", "", "", <<>>, <<>>)

Base == Img("base", "linux", "amd64", <<"d1">>, <<H(1, "a")>>)
App == Img("app", "linux", "amd64", <<"d1", "d2">>, <<H(1, "a"), H(2, "b")>>)
Twin == Img("twin", "linux", "amd64", <<"d1", "d2">>, <<>>)
Bare == Img("bare", "linux", "amd64", <<"d3">>, <<>>)
Arm == Img("arm", "linux", "arm64", <<"d1">>, <<H(1, "z")>>)
Win == Img("win", "windows", "arm64", <<"d1">>, <<H(1, "a")>>)
Ghost == Img("ghost", "linux", "amd64", <<"d3">>, <<H(1, "a")>>)

\* RootFS.ChainID(): a pure, injective function of the ordered diff-ids.
ChainID(diffIDs) == diffIDs

\* ------------------------------------------------------- the staged files
\* The staging root (tmpDir) of one Load.
tmpDir == "tmp"

\* filepath.Join(base, path) followed by Clean: a name with enough ".."
\* leaves the root lexically; every other name stays a name under the root.
filepathJoin(base, path) ==
    IF path \in {"../cfg", "../layer"} THEN "outside" ELSE path

\* Where the operating system ends up when it opens a joined path: a path
\* through the archive's symlink "lnk" lands outside the staging root.
OpenTarget(p) ==
    IF p \in {"outside", "lnk/layer"} THEN "outside" ELSE p

\* A sanitizer that resolves nothing (used to show what safePath prevents).
safePathUnchecked(base, path) ==
    [err |-> FALSE, path |-> filepathJoin(base, path)]

\* safePath: symlink.FollowSymlinkInScope(filepath.Join(base, path), base).
\* A joined path that is not under base is an error; a symlink is followed
\* inside base, so the result names a file under base ("in/..." here).
safePath(base, path) ==
    LET joined == filepathJoin(base, path)
    IN  IF joined = "outside" THEN [err |-> TRUE, path |-> ""]
        ELSE IF joined = "lnk/layer" THEN [err |-> FALSE, path |-> "in/layer"]
        ELSE [err |-> FALSE, path |-> joined]

\* The image configurations the archive's config files hold, by file name.
ConfigFiles ==
    [base |-> Base, app |-> App, twin |-> Twin, bare |-> Bare, arm |-> Arm, win |-> Win]

\* os.ReadFile + image.NewFromJSON of a resolved config path.
ReadConfig(p) ==
    IF p \in DOMAIN ConfigFiles THEN [err |-> "none", img |-> ConfigFiles[p]]
    ELSE [err |-> "NotExist", img |-> NoID]

\* The layer blobs of the archive, by file name: the diff-id of the content.
LayerFiles == [d1tar |-> "d1", d2tar |-> "d2", d3tar |-> "d3"]

\* reference.ParseNormalizedNamed + the NamedTagged assertion: a string that
\* is no name:tag is rejected.
RefNames == {"t1", "t2"}

ParseTag(repoTag) ==
    IF repoTag \in RefNames THEN [ok |-> TRUE, ref |-> repoTag] ELSE [ok |-> FALSE, ref |-> ""]

\* image.CheckOS on a host running hostOS.
CheckOS(hostOS, os) == os = hostOS

\* A platform filter that lets every image through.
PlatformMatchesAny(matcher, img) == TRUE

\* platformMatcher.Match(img.Platform()); "none" is the nil matcher.
PlatformMatches(matcher, img) == matcher = "none" \/ img.arch = matcher

\* ------------------------------------------------------------ the archive
\* manifestItem
Item(c, l, t, p) == [Config |-> c, Layers |-> l, RepoTags |-> t, Parent |-> p]

\* The layer file names an archive lists for an image whose blobs are intact.
LayerNames ==
    [base |-> <<"d1tar">>, app |-> <<"d1tar", "d2tar">>, twin |-> <<"d1tar", "d2tar">>,
     bare |-> <<"d3tar">>]

\* Well-formed manifest entries for the host's platform.
CleanItems ==
    { Item("base", LayerNames.base, <<>>, NoID),
      Item("base", LayerNames.base, <<"t1">>, NoID),
      Item("base", LayerNames.base, <<"t1">>, Base),
      Item("base", LayerNames.base, <<>>, Ghost),
      Item("app", LayerNames.app, <<>>, Base),
      Item("app", LayerNames.app, <<"t1">>, Base),
      Item("app", LayerNames.app, <<"t1">>, Bare),
      Item("app", LayerNames.app, <<>>, Arm),
      Item("app", LayerNames.app, <<"t2", "t1">>, NoID),
      Item("twin", LayerNames.twin, <<>>, Bare),
      Item("twin", LayerNames.twin, <<"t1">>, Base),
      Item("bare", LayerNames.bare, <<>>, NoID),
      Item("bare", LayerNames.bare, <<"t1">>, NoID) }

\* Entries for other platforms, and malformed or hostile entries.
OddItems ==
    { Item("arm", <<"d1tar">>, <<"t1">>, NoID),
      Item("arm", <<>>, <<>>, NoID),
      Item("win", <<"d1tar">>, <<>>, NoID),
      Item("app", <<"d1tar">>, <<"t1">>, NoID),
      Item("app", <<"d1tar", "d3tar">>, <<"t1">>, Base),
      Item("base", <<"../layer">>, <<"t1">>, NoID),
      Item("base", <<"lnk/layer">>, <<>>, NoID),
      Item("../cfg", <<"d1tar">>, <<"t1">>, NoID),
      Item("nofile", <<"d1tar">>, <<>>, NoID),
      Item("base", <<"d1tar">>, <<"t1", "bad">>, NoID) }

Items == CleanItems \cup OddItems

RECURSIVE SeqsUpTo(_, _)
SeqsUpTo(S, n) ==
    IF n = 0 THEN {<<>>}
    ELSE LET shorter == SeqsUpTo(S, n - 1)
         IN  shorter \cup {Append(s, x) : s \in {t \in shorter : Len(t) = n - 1}, x \in S}

\* ------------------------------------------------------------- the state
VARIABLES
    goos,            \* runtime.GOOS of the host
    platformMatcher, \* l.platformMatcher: "none" (nil) or the wanted architecture
    faulty,          \* whether store and extraction calls may fail
    manifestState,   \* the manifest file: "absent", "null", "malformed", "list"
    manifest,        \* the decoded manifest entries
    ldirs,           \* legacy format: the json files of the image directories
    repos,           \* legacy format: the repositories file
    canceled,        \* ctx.Done() is closed
    images,          \* image store: the ids of the images it holds
    parentOf,        \* image store: <<child, parent>> pairs set by SetParent
    layers,          \* layer store: the ChainIDs it holds
    tags,            \* reference store: <<ref, image id>> pairs
    pc,              \* the position of Load
    err,             \* the error Load returns ("none" for nil)
    idx,             \* index of the manifest entry being processed
    li,              \* index i of the per-layer loop
    ti,              \* index of the repo-tag loop
    rootFS,          \* the running rootFS.DiffIDs
    imgID,           \* the id returned by the last is.Create
    parentLinks,     \* the parentLinks slice
    links,           \* validatedParentLinks(parentLinks), being ranged over
    pi,              \* index into links
    imageIDsStr,     \* the ids accumulated for the "Loaded image ID" lines
    imageRefCount,   \* the number of tags of the last entry processed
    deferred,        \* the deferred layer.ReleaseAndLog calls, in defer order
    di,              \* legacyLoad: index into the directory listing
    stack,           \* the active calls of legacyLoadImage, outermost first
    loadedMap,       \* legacyLoadedMap: <<legacy id, image id>> pairs
    todo,            \* legacyLoad: the repositories entries still to range over
    run,             \* which Load call on this archive this is
    snap,            \* what the stores held when this Load call started
    trace            \* what Load did so far: its calls and output, in order

env == <<goos, platformMatcher, faulty, manifestState, manifest, ldirs, repos, run, snap>>
stores == <<images, parentOf, layers, tags>>
loop == <<idx, li, ti, rootFS, imgID>>
batch == <<parentLinks, links, pi, imageIDsStr, imageRefCount>>
legacy == <<di, stack, loadedMap, todo>>
vars == <<env, canceled, stores, pc, err, loop, batch, deferred, legacy, trace>>

\* One call or output of Load. k is the manifest entry it belongs to (0 when
\* none); the other fields are used as the operation needs them.
Ev0 == [op |-> "", k |-> 0, dir |-> "", id |-> NoID, parent |-> NoID, chain |-> <<>>,
        key |-> <<>>, s |-> "", ok |-> TRUE]

EvOpen(k, p) == [Ev0 EXCEPT !.op = "open", !.k = k, !.s = OpenTarget(p)]
EvGet(k, c, hit) == [Ev0 EXCEPT !.op = "get", !.k = k, !.chain = c, !.ok = hit]
EvRegister(k, key, want, got, ok) ==
    [Ev0 EXCEPT !.op = "register", !.k = k, !.key = key, !.s = want, !.chain = got, !.ok = ok]
EvRelease(c) == [Ev0 EXCEPT !.op = "release", !.chain = c]
EvCreate(k, id, ok) == [Ev0 EXCEPT !.op = "create", !.k = k, !.id = id, !.ok = ok]
EvNotice(k, ref, prev) == [Ev0 EXCEPT !.op = "notice", !.k = k, !.s = ref, !.id = prev]
EvAddTag(k, ref, id, ok) == [Ev0 EXCEPT !.op = "addtag", !.k = k, !.s = ref, !.id = id, !.ok = ok]
EvLineTag(k, ref) == [Ev0 EXCEPT !.op = "line_tag", !.k = k, !.s = ref]
EvLineID(id) == [Ev0 EXCEPT !.op = "line_id", !.id = id]
EvEvent(k, id) == [Ev0 EXCEPT !.op = "event", !.k = k, !.id = id]
EvImgGet(id, ok) == [Ev0 EXCEPT !.op = "isget", !.id = id, !.ok = ok]
EvSetParent(id, parent, ok) ==
    [Ev0 EXCEPT !.op = "setparent", !.id = id, !.parent = parent, !.ok = ok]

\* The outcomes a store call or the extraction can have.
Outcomes == IF faulty THEN {TRUE, FALSE} ELSE {TRUE}

\* --------------------------------------------------------- pure functions
\* json.Decode of the manifest file into []manifestItem: the JSON null leaves
\* the slice nil, [] gives an empty non-nil slice.
DecodeManifest(state, items) ==
    CASE state = "malformed" -> [err |-> TRUE, isNil |-> TRUE, items |-> <<>>]
      [] state = "null" -> [err |-> FALSE, isNil |-> TRUE, items |-> <<>>]
      [] OTHER -> [err |-> FALSE, isNil |-> FALSE, items |-> items]

\* validateManifest rejecting every manifest without entries.
validateManifestNonEmpty(m) == ~m.isNil /\ m.items # <<>>

\* validateManifest: TRUE when it returns nil.
validateManifest(m) == ~m.isNil

\* parentLink
Link(id, parentID) == [id |-> id, parentID |-> parentID]

\* The inner loop of validatedParentLinks from p2 = pl[j] on: TRUE when it
\* reaches "continue mainloop".
RECURSIVE parentFound(_, _, _)
parentFound(pl, p, j) ==
    IF j > Len(pl) THEN FALSE
    ELSE IF pl[j].id = p.parentID /\ pl[j].id # p.id THEN TRUE
    ELSE parentFound(pl, p, j + 1)

\* The main loop of validatedParentLinks looking for the parent only among
\* the links before the current one.
RECURSIVE validatedFromEarlier(_, _, _)
validatedFromEarlier(pl, i, ret) ==
    IF i > Len(pl) THEN ret
    ELSE LET p == pl[i]
         IN  validatedFromEarlier(pl, i + 1,
                Append(ret, IF parentFound(SubSeq(pl, 1, i - 1), p, 1) THEN p
                            ELSE Link(p.id, NoID)))

\* The main loop of validatedParentLinks from index i on, with ret so far.
RECURSIVE validatedFrom(_, _, _)
validatedFrom(pl, i, ret) ==
    IF i > Len(pl) THEN ret
    ELSE LET p == pl[i]
         IN  validatedFrom(pl, i + 1,
                Append(ret, IF parentFound(pl, p, 1) THEN p ELSE Link(p.id, NoID)))

\* validatedParentLinks written without the self-reference test.
validatedParentLinksNoSelfTest(pl) ==
    LET RECURSIVE found(_, _)
        found(p, j) == IF j > Len(pl) THEN FALSE
                       ELSE IF pl[j].id = p.parentID THEN TRUE ELSE found(p, j + 1)
        RECURSIVE from(_, _)
        from(i, ret) == IF i > Len(pl) THEN ret
                        ELSE from(i + 1, Append(ret, IF found(pl[i], 1) THEN pl[i]
                                                     ELSE Link(pl[i].id, NoID)))
    IN  from(1, <<>>)

validatedParentLinks(pl) == validatedFrom(pl, 1, <<>>)

\* The loop of checkValidParent comparing only whether Created is set.
RECURSIVE historyAgreesAnyCreated(_, _, _)
historyAgreesAnyCreated(imgH, parentH, i) ==
    IF i > Len(parentH) THEN TRUE
    ELSE LET hP == parentH[i]
             hC == imgH[i]
         IN  IF (hP.Created = 0) # (hC.Created = 0) THEN FALSE
             ELSE IF hP # [hC EXCEPT !.Created = hP.Created] THEN FALSE
             ELSE historyAgreesAnyCreated(imgH, parentH, i + 1)

\* The loop of checkValidParent over parent.History from index i on.
RECURSIVE historyAgrees(_, _, _)
historyAgrees(imgH, parentH, i) ==
    IF i > Len(parentH) THEN TRUE
    ELSE LET hP == parentH[i]
             hC == imgH[i]
         IN  IF (hP.Created = 0) # (hC.Created = 0) THEN FALSE
             ELSE IF hP.Created # 0 /\ hP.Created # hC.Created THEN FALSE
             ELSE IF hP # [hC EXCEPT !.Created = hP.Created] THEN FALSE
             ELSE historyAgrees(imgH, parentH, i + 1)

\* checkValidParent without the length test.
checkValidParentNoLength(img, parent) ==
    \/ Len(img.history) = 0 /\ Len(parent.history) = 0
    \/ /\ Len(img.history) >= Len(parent.history)
       /\ historyAgrees(img.history, parent.history, 1)

checkValidParent(img, parent) ==
    IF Len(img.history) = 0 /\ Len(parent.history) = 0 THEN TRUE
    ELSE IF Len(img.history) # Len(parent.history) + 1 THEN FALSE
    ELSE historyAgrees(img.history, parent.history, 1)

\* ------------------------------------------------------ store operations
\* rs.Get(ref): the id the reference maps to, NoID when there is none.
RefGet(ref) == IF \E t \in tags : t[1] = ref THEN (CHOOSE t \in tags : t[1] = ref)[2] ELSE NoID

\* rs.AddTag(ref, id, force = true): overwrite the mapping.
RefAddTag(ref, id) == {t \in tags : t[1] # ref} \cup {<<ref, id>>}

\* is.SetParent(id, parent)
ImageSetParent(id, parent) == {q \in parentOf : q[1] # id} \cup {<<id, parent>>}

\* Load, lines 110-112: the layer count check.
layerCountAtLeast(m, img) == Len(m.Layers) >= 1

layerCountOK(m, img) == Len(m.Layers) = Len(img.diffIDs)

\* Load, lines 124-126: the chain looked up for diffID on top of fs, taken
\* without the r.Append(diffID).
lookupChainOfParent(fs, diffID) == ChainID(fs)

\* Load, lines 124-126: r := rootFS; r.Append(diffID); r.ChainID().
lookupChain(fs, diffID) == ChainID(Append(fs, diffID))

\* ------------------------------------------------ Load, the manifest path
\* A return statement of Load: the deferred calls run next.
Return(e) == pc' = "return" /\ err' = e

\* Load, lines 46-54: the scratch directory and untar, which reads the
\* stream through a reader that fails once ctx is done.
Stage ==
    /\ pc = "start"
    /\ \E ok \in Outcomes :
        IF canceled THEN Return("Canceled")
        ELSE IF ~ok THEN Return("ExtractionFailure")
        ELSE pc' = "manifest" /\ err' = err
    /\ UNCHANGED <<legacy, env, canceled, stores, loop, batch, deferred, trace>>

\* Load, lines 56-77: open and decode the manifest, or go the legacy way.
ReadManifest ==
    /\ pc = "manifest"
    /\ LET sp == safePath(tmpDir, "manifest.json")
           m == DecodeManifest(manifestState, manifest)
       IN  IF sp.err THEN Return("PathEscape") /\ UNCHANGED <<trace, idx>>
           ELSE IF manifestState = "absent"
               THEN pc' = "legacy" /\ UNCHANGED <<err, trace, idx>>
           ELSE /\ trace' = Append(trace, EvOpen(0, sp.path))
                /\ IF m.err \/ ~validateManifest(m)
                       THEN Return("InvalidManifest") /\ idx' = idx
                       ELSE pc' = "entry" /\ idx' = 1 /\ err' = err
    /\ UNCHANGED <<legacy, env, canceled, stores, li, ti, rootFS, imgID, batch, deferred>>

\* A poll of ctx that never sees the cancellation.
ctxNeverDone == FALSE

\* Load, lines 84-88 and 115-119: select { case <-ctx.Done(): ... default: }.
ctxDone == canceled

\* The image configuration of manifest entry k, as Load reads it.
ConfigOf(k) == ReadConfig(safePath(tmpDir, manifest[k].Config).path)

\* The head of the loop of a Load that applies the platform filter before
\* the host-OS check.
LoadEntryFilterFirst ==
    /\ pc = "entry"
    /\ idx <= Len(manifest)
    /\ LET m == manifest[idx]
           sp == safePath(tmpDir, m.Config)
           cfg == ReadConfig(sp.path)
           img == cfg.img
       IN  IF ctxDone THEN Return("Canceled") /\ UNCHANGED <<trace, loop>>
           ELSE IF sp.err THEN Return("PathEscape") /\ UNCHANGED <<trace, loop>>
           ELSE /\ trace' = Append(trace, EvOpen(idx, sp.path))
                /\ IF cfg.err # "none" THEN Return(cfg.err) /\ UNCHANGED loop
                   ELSE IF ~PlatformMatches(platformMatcher, img)
                       THEN idx' = idx + 1 /\ UNCHANGED <<pc, err, li, ti, rootFS, imgID>>
                   ELSE IF ~CheckOS(goos, img.os)
                       THEN Return("PlatformUnsupported") /\ UNCHANGED loop
                   ELSE IF ~layerCountOK(m, img)
                       THEN Return("LayerCountMismatch") /\ UNCHANGED loop
                   ELSE /\ pc' = IF Len(img.diffIDs) = 0 THEN "create" ELSE "layers"
                        /\ li' = 1
                        /\ rootFS' = <<>>
                        /\ UNCHANGED <<err, idx, ti, imgID>>
    /\ UNCHANGED <<legacy, env, canceled, stores, batch, deferred>>

\* Load, lines 83-112: the head of the loop over the manifest, up to the
\* layer count check.
LoadEntry ==
    /\ pc = "entry"
    /\ idx <= Len(manifest)
    /\ LET m == manifest[idx]
           sp == safePath(tmpDir, m.Config)
           cfg == ReadConfig(sp.path)
           img == cfg.img
       IN  IF ctxDone THEN Return("Canceled") /\ UNCHANGED <<trace, loop>>
           ELSE IF sp.err THEN Return("PathEscape") /\ UNCHANGED <<trace, loop>>
           ELSE /\ trace' = Append(trace, EvOpen(idx, sp.path))
                /\ IF cfg.err # "none" THEN Return(cfg.err) /\ UNCHANGED loop
                   ELSE IF ~CheckOS(goos, img.os)
                       THEN Return("PlatformUnsupported") /\ UNCHANGED loop
                   ELSE IF ~PlatformMatches(platformMatcher, img)
                       THEN idx' = idx + 1 /\ UNCHANGED <<pc, err, li, ti, rootFS, imgID>>
                   ELSE IF ~layerCountOK(m, img)
                       THEN Return("LayerCountMismatch") /\ UNCHANGED loop
                   ELSE /\ pc' = IF Len(img.diffIDs) = 0 THEN "create" ELSE "layers"
                        /\ li' = 1
                        /\ rootFS' = <<>>
                        /\ UNCHANGED <<err, idx, ti, imgID>>
    /\ UNCHANGED <<legacy, env, canceled, stores, batch, deferred>>

\* Load, lines 134-136, without the comparison.
diffIDUnchecked(expected, newLayer) == TRUE

\* Load, lines 134-136: expected, actual := diffID, newLayer.DiffID(); the
\* diff-id of a layer is the last one its chain folds.
diffIDMatches(expected, newLayer) == expected = newLayer[Len(newLayer)]

\* os.Open of a resolved layer path by loadLayer: the diff-id of the blob's
\* content, "" when there is no such file.
OpenLayer(p) == IF p \in DOMAIN LayerFiles THEN LayerFiles[p] ELSE ""

\* Load, lines 114-138, one iteration of the per-layer loop, with loadLayer
\* (lines 204-244) on a miss.
ResolveLayer ==
    /\ pc = "layers"
    /\ \E regOK \in Outcomes :
        LET m == manifest[idx]
            img == ConfigOf(idx).img
            diffID == img.diffIDs[li]
            sp == safePath(tmpDir, m.Layers[li])
            r == Append(rootFS, diffID)
            wanted == lookupChain(rootFS, diffID)
            hit == wanted \in layers
            content == OpenLayer(sp.path)
            got == Append(rootFS, content)
            newLayer == IF hit THEN wanted ELSE ChainID(got)
            looked == Append(trace, EvGet(idx, wanted, hit))
            tried == Append(looked, EvOpen(idx, sp.path))
        IN  IF ctxDone
                THEN Return("Canceled") /\ UNCHANGED <<trace, layers, deferred, li, rootFS>>
            ELSE IF sp.err
                THEN Return("PathEscape") /\ UNCHANGED <<trace, layers, deferred, li, rootFS>>
            ELSE IF ~hit /\ content = ""
                THEN /\ Return("NotExist")
                     /\ trace' = tried
                     /\ UNCHANGED <<layers, deferred, li, rootFS>>
            ELSE IF ~hit /\ ~regOK
                THEN /\ Return("StoreError")
                     /\ trace' = Append(tried, EvRegister(idx, ChainID(rootFS), diffID, <<>>, FALSE))
                     /\ UNCHANGED <<layers, deferred, li, rootFS>>
            ELSE /\ trace' = IF hit THEN looked
                             ELSE Append(tried, EvRegister(idx, ChainID(rootFS), diffID, newLayer, TRUE))
                 /\ layers' = layers \cup {newLayer}
                 /\ deferred' = Append(deferred, newLayer)
                 /\ IF ~diffIDMatches(diffID, newLayer)
                        THEN Return("DiffIDMismatch") /\ UNCHANGED <<li, rootFS>>
                        ELSE /\ rootFS' = r
                             /\ li' = li + 1
                             /\ pc' = IF li = Len(img.diffIDs) THEN "create" ELSE "layers"
                             /\ err' = err
    /\ UNCHANGED <<legacy, env, canceled, images, parentOf, tags, idx, ti, imgID, batch>>

\* Load, lines 140-146: create the image.
CreateImage ==
    /\ pc = "create"
    /\ \E ok \in Outcomes :
        LET img == ConfigOf(idx).img
        IN  IF ~ok
                THEN /\ Return("StoreError")
                     /\ trace' = Append(trace, EvCreate(idx, img, FALSE))
                     /\ UNCHANGED <<images, imgID, ti, imageIDsStr, imageRefCount>>
                ELSE /\ images' = images \cup {img}
                     /\ imgID' = img
                     /\ imageIDsStr' = Append(imageIDsStr, img)
                     /\ imageRefCount' = 0
                     /\ ti' = 1
                     /\ pc' = "tags"
                     /\ trace' = Append(trace, EvCreate(idx, img, TRUE))
                     /\ err' = err
    /\ UNCHANGED <<legacy, env, canceled, parentOf, layers, tags, idx, li, rootFS,
                   parentLinks, links, pi, deferred>>

\* setLoadedTag, lines 246-252, as its callers use it: the supersession
\* notice, then AddTag, whose error the callers drop.  The events it adds.
setLoadedTag(k, ref, id, ok) ==
    (IF RefGet(ref) # NoID /\ RefGet(ref) # id THEN <<EvNotice(k, ref, RefGet(ref))>> ELSE <<>>)
        \o <<EvAddTag(k, ref, id, ok)>>

\* The repo-tag loop of a Load that logs the load event of the image before
\* it returns InvalidTag.
AssignTagLoggingFirst ==
    /\ pc = "tags"
    /\ ti <= Len(manifest[idx].RepoTags)
    /\ \E ok \in Outcomes :
        LET parsed == ParseTag(manifest[idx].RepoTags[ti])
        IN  IF ~parsed.ok
                THEN /\ Return("InvalidTag")
                     /\ trace' = Append(trace, EvEvent(idx, imgID))
                     /\ UNCHANGED <<tags, ti, imageRefCount>>
                ELSE /\ tags' = IF ok THEN RefAddTag(parsed.ref, imgID) ELSE tags
                     /\ trace' = trace \o setLoadedTag(idx, parsed.ref, imgID, ok)
                                       \o <<EvLineTag(idx, parsed.ref)>>
                     /\ imageRefCount' = imageRefCount + 1
                     /\ ti' = ti + 1
                     /\ UNCHANGED <<pc, err>>
    /\ UNCHANGED <<legacy, env, canceled, images, parentOf, layers, idx, li, rootFS, imgID,
                   parentLinks, links, pi, imageIDsStr, deferred>>

\* Load, lines 147-159: one repo tag of the entry.
AssignTag ==
    /\ pc = "tags"
    /\ ti <= Len(manifest[idx].RepoTags)
    /\ \E ok \in Outcomes :
        LET parsed == ParseTag(manifest[idx].RepoTags[ti])
        IN  IF ~parsed.ok
                THEN /\ Return("InvalidTag")
                     /\ UNCHANGED <<tags, trace, ti, imageRefCount>>
                ELSE /\ tags' = IF ok THEN RefAddTag(parsed.ref, imgID) ELSE tags
                     /\ trace' = trace \o setLoadedTag(idx, parsed.ref, imgID, ok)
                                       \o <<EvLineTag(idx, parsed.ref)>>
                     /\ imageRefCount' = imageRefCount + 1
                     /\ ti' = ti + 1
                     /\ UNCHANGED <<pc, err>>
    /\ UNCHANGED <<legacy, env, canceled, images, parentOf, layers, idx, li, rootFS, imgID,
                   parentLinks, links, pi, imageIDsStr, deferred>>

\* The release events of the handles in ds, last obtained first.
RECURSIVE Releases(_)
Releases(ds) ==
    IF ds = <<>> THEN <<>>
    ELSE <<EvRelease(ds[Len(ds)])>> \o Releases(SubSeq(ds, 1, Len(ds) - 1))

\* The end of the loop body of a Load that releases the layers of an entry
\* as soon as the entry is done instead of deferring the releases.
FinishEntryReleasing ==
    /\ pc = "tags"
    /\ ti > Len(manifest[idx].RepoTags)
    /\ parentLinks' = Append(parentLinks, Link(imgID, manifest[idx].Parent))
    /\ trace' = Append(trace, EvEvent(idx, imgID)) \o Releases(deferred)
    /\ deferred' = <<>>
    /\ idx' = idx + 1
    /\ pc' = "entry"
    /\ UNCHANGED <<legacy, env, canceled, stores, err, li, ti, rootFS, imgID,
                   links, pi, imageIDsStr, imageRefCount>>

\* Load, lines 161-163: record the parent link and log the event.
FinishEntry ==
    /\ pc = "tags"
    /\ ti > Len(manifest[idx].RepoTags)
    /\ parentLinks' = Append(parentLinks, Link(imgID, manifest[idx].Parent))
    /\ trace' = Append(trace, EvEvent(idx, imgID))
    /\ idx' = idx + 1
    /\ pc' = "entry"
    /\ UNCHANGED <<legacy, env, canceled, stores, err, li, ti, rootFS, imgID,
                   links, pi, imageIDsStr, imageRefCount, deferred>>

\* Load, line 165: the manifest is exhausted; range over the validated links.
EndEntries ==
    /\ pc = "entry"
    /\ idx > Len(manifest)
    /\ links' = validatedParentLinks(parentLinks)
    /\ pi' = 1
    /\ pc' = "parents"
    /\ UNCHANGED <<legacy, env, canceled, stores, err, loop, parentLinks, imageIDsStr,
                   imageRefCount, deferred, trace>>

\* Load, lines 165-171, one link, with setParentID (lines 189-202).
SetParent ==
    /\ pc = "parents"
    /\ pi <= Len(links)
    /\ \E getOK \in Outcomes, setOK \in Outcomes :
        LET p == links[pi]
            gets == <<EvImgGet(p.id, getOK)>>
                        \o (IF getOK THEN <<EvImgGet(p.parentID, TRUE)>> ELSE <<>>)
        IN  IF p.parentID = NoID
                THEN pi' = pi + 1 /\ UNCHANGED <<pc, err, parentOf, trace>>
            ELSE IF ~getOK \/ p.id \notin images \/ p.parentID \notin images
                THEN /\ Return("StoreError")
                     /\ trace' = trace \o gets
                     /\ UNCHANGED <<pi, parentOf>>
            ELSE IF ~checkValidParent(p.id, p.parentID)
                THEN /\ Return("InvalidParent")
                     /\ trace' = trace \o gets
                     /\ UNCHANGED <<pi, parentOf>>
            ELSE IF ~setOK
                THEN /\ Return("StoreError")
                     /\ trace' = trace \o gets \o <<EvSetParent(p.id, p.parentID, FALSE)>>
                     /\ UNCHANGED <<pi, parentOf>>
            ELSE /\ parentOf' = ImageSetParent(p.id, p.parentID)
                 /\ trace' = trace \o gets \o <<EvSetParent(p.id, p.parentID, TRUE)>>
                 /\ pi' = pi + 1
                 /\ UNCHANGED <<pc, err>>
    /\ UNCHANGED <<legacy, env, canceled, images, layers, tags, loop, parentLinks, links,
                   imageIDsStr, imageRefCount, deferred>>

\* The "Loaded image ID" lines of imageIDsStr.
RECURSIVE IDLines(_)
IDLines(ids) == IF ids = <<>> THEN <<>> ELSE <<EvLineID(Head(ids))>> \o IDLines(Tail(ids))

\* Load, lines 173-177: the id lines, and return nil.
Finish ==
    /\ pc = "parents"
    /\ pi > Len(links)
    /\ trace' = IF imageRefCount = 0 THEN trace \o IDLines(imageIDsStr) ELSE trace
    /\ Return("none")
    /\ UNCHANGED <<legacy, env, canceled, stores, loop, batch, deferred>>

\* The deferred calls of a Load that also undoes its image creations when
\* it returns an error.
UnwindWithRollback ==
    /\ pc = "return"
    /\ IF deferred = <<>>
           THEN /\ pc' = "done"
                /\ images' = IF err = "none" THEN images ELSE snap.images
                /\ UNCHANGED <<deferred, trace>>
           ELSE /\ trace' = Append(trace, EvRelease(deferred[Len(deferred)]))
                /\ deferred' = SubSeq(deferred, 1, Len(deferred) - 1)
                /\ pc' = pc
                /\ images' = images
    /\ UNCHANGED <<legacy, env, canceled, parentOf, layers, tags, err, loop, batch>>

\* The deferred layer.ReleaseAndLog calls of Load (line 133), last first;
\* after the last one Load has returned.
Unwind ==
    /\ pc = "return"
    /\ IF deferred = <<>>
           THEN pc' = "done" /\ UNCHANGED <<deferred, trace>>
           ELSE /\ trace' = Append(trace, EvRelease(deferred[Len(deferred)]))
                /\ deferred' = SubSeq(deferred, 1, Len(deferred) - 1)
                /\ pc' = pc
    /\ UNCHANGED <<legacy, env, canceled, stores, err, loop, batch>>

\* The caller cancels ctx.
Cancel ==
    /\ ~canceled
    /\ pc \notin {"return", "done"}
    /\ canceled' = TRUE
    /\ UNCHANGED <<legacy, env, stores, pc, err, loop, batch, deferred, trace>>

\* ---------------------------------------------------- Load, the legacy path
\* filepath.Join(oldID, legacyConfigFileName or legacyLayerFileName): the
\* name relative to the staging root.
legacyJoin(oldID, file) ==
    CASE oldID = "../p" -> IF file = "json" THEN "../cfg" ELSE "../layer"
      [] oldID = "x" -> IF file = "json" THEN "x/json" ELSE "x/layer.tar"
      [] oldID = "z" -> IF file = "json" THEN "z/json" ELSE "z/layer.tar"
      [] OTHER -> IF file = "json" THEN "y/json" ELSE "y/layer.tar"

\* os.ReadFile + json.Unmarshal of a directory's json file.
ReadLegacyJSON(p) ==
    IF \E j \in ldirs : legacyJoin(j.id, "json") = p
        THEN [err |-> "none", json |-> CHOOSE j \in ldirs : legacyJoin(j.id, "json") = p]
        ELSE [err |-> "NotExist", json |-> [id |-> "", Parent |-> "", flavor |-> "ok"]]

\* The diff-id of the content of a directory's layer.tar.
LegacyLayerDiff(oldID) == IF oldID = "x" THEN "d1" ELSE IF oldID = "z" THEN "d3" ELSE "d2"

\* v1.HistoryFromConfig(imageJSON, false); it fails on a json whose history
\* fields do not decode.
HistoryFromConfig(json) ==
    [err |-> json.flavor = "badhist", h |-> H(1, json.id)]

\* v1.MakeConfigFromV1Config(imageJSON, rootFS, history): the configuration
\* of the image, a function of the three.
MakeConfigFromV1Config(json, fs, history) ==
    Img(json.id, IF json.flavor = "winos" THEN "windows" ELSE "", "amd64", fs, history)

\* os.ReadDir(tmpDir): the directories, sorted by name.
ReadDir ==
    LET ids == {j.id : j \in ldirs}
    IN  (IF "x" \in ids THEN <<"x">> ELSE <<>>) \o (IF "y" \in ids THEN <<"y">> ELSE <<>>)
            \o (IF "z" \in ids THEN <<"z">> ELSE <<>>)

\* A load map that never reports an id as loaded.
LoadedNever(oldID) == FALSE

Loaded(oldID) == \E e \in loadedMap : e[1] = oldID
LoadedID(oldID) == (CHOOSE e \in loadedMap : e[1] = oldID)[2]

Frame(oldID) == [oldID |-> oldID, at |-> "enter", parentID |-> NoID, newLayer |-> <<>>, imgID |-> NoID]
Top == stack[Len(stack)]
SetTop(f) == [stack EXCEPT ![Len(stack)] = f]

\* legacyLoadImage returns nil to its caller.
Pop == /\ stack' = SubSeq(stack, 1, Len(stack) - 1)
       /\ pc' = IF Len(stack) = 1 THEN "ldirs" ELSE "limg"
       /\ err' = err

\* legacyLoadImage returns an error, which every caller up to Load returns.
LegacyReturn(e) == Return(e) /\ stack' = <<>>

\* legacyLoad without the test of runtime.GOOS.
LegacyStartAnyHost ==
    /\ pc = "legacy"
    /\ pc' = "ldirs"
    /\ di' = 1
    /\ trace' = Append(trace, [Ev0 EXCEPT !.op = "readdir"])
    /\ err' = err
    /\ UNCHANGED <<env, canceled, stores, loop, batch, deferred, stack, loadedMap, todo>>

\* legacyLoad, lines 255-264.
LegacyStart ==
    /\ pc = "legacy"
    /\ IF goos = "windows"
           THEN Return("UnsupportedLegacyFormat") /\ UNCHANGED <<di, trace>>
           ELSE /\ pc' = "ldirs"
                /\ di' = 1
                /\ trace' = Append(trace, [Ev0 EXCEPT !.op = "readdir"])
                /\ err' = err
    /\ UNCHANGED <<env, canceled, stores, loop, batch, deferred, stack, loadedMap, todo>>

\* legacyLoad, lines 267-273: the loop over the directories.
LegacyNextDir ==
    /\ pc = "ldirs"
    /\ IF di > Len(ReadDir)
           THEN pc' = "lrepos" /\ UNCHANGED <<di, stack>>
           ELSE /\ stack' = <<Frame(ReadDir[di])>>
                /\ di' = di + 1
                /\ pc' = "limg"
    /\ UNCHANGED <<env, canceled, stores, err, loop, batch, deferred, loadedMap, todo, trace>>

\* legacyLoadImage, lines 313-339: memo check, read the json, check the OS.
LegacyEnter ==
    /\ pc = "limg"
    /\ Top.at = "enter"
    /\ LET sp == safePath(tmpDir, legacyJoin(Top.oldID, "json"))
           js == ReadLegacyJSON(sp.path)
           os == IF js.json.flavor = "winos" THEN "windows" ELSE goos
       IN  IF Loaded(Top.oldID) THEN Pop /\ UNCHANGED trace
           ELSE IF sp.err THEN LegacyReturn("PathEscape") /\ UNCHANGED trace
           ELSE /\ trace' = Append(trace, [EvOpen(0, sp.path) EXCEPT !.dir = Top.oldID])
                /\ IF js.err # "none" THEN LegacyReturn(js.err)
                   ELSE IF ~CheckOS(goos, os) THEN LegacyReturn("PlatformUnsupported")
                   ELSE stack' = SetTop([Top EXCEPT !.at = "parent"]) /\ UNCHANGED <<pc, err>>
    /\ UNCHANGED <<env, canceled, stores, loop, batch, deferred, di, loadedMap, todo>>

\* The json of the directory the top call is loading.
TopJSON == ReadLegacyJSON(safePath(tmpDir, legacyJoin(Top.oldID, "json")).path).json

\* legacyLoadImage, lines 341-353: one iteration of the loop that loads the
\* parent until the map holds it.  A call beyond MaxDepth is not followed.
LegacyParent ==
    /\ pc = "limg"
    /\ Top.at = "parent"
    /\ LET parent == TopJSON.Parent
       IN  IF parent = ""
               THEN stack' = SetTop([Top EXCEPT !.at = "layer"]) /\ pc' = pc
           ELSE IF Loaded(parent)
               THEN /\ stack' = SetTop([Top EXCEPT !.at = "layer", !.parentID = LoadedID(parent)])
                    /\ pc' = pc
           ELSE IF Len(stack) < MaxDepth
               THEN stack' = Append(stack, Frame(parent)) /\ pc' = pc
           ELSE pc' = "overflow" /\ stack' = stack
    /\ UNCHANGED <<env, canceled, stores, err, loop, batch, deferred, di, loadedMap, todo, trace>>

\* legacyLoadImage, lines 356-377: the parent image, then loadLayer.
LegacyLayer ==
    /\ pc = "limg"
    /\ Top.at = "layer"
    /\ \E getOK \in Outcomes, regOK \in Outcomes :
        LET f == Top
            fs == f.parentID.diffIDs
            sp == safePath(tmpDir, legacyJoin(f.oldID, "layer"))
            content == LegacyLayerDiff(f.oldID)
            newLayer == ChainID(Append(fs, content))
            gets == IF f.parentID = NoID THEN <<>>
                    ELSE <<[EvImgGet(f.parentID, getOK) EXCEPT !.dir = f.oldID]>>
            opened == trace \o gets \o <<[EvOpen(0, sp.path) EXCEPT !.dir = f.oldID]>>
        IN  IF f.parentID # NoID /\ ~getOK
                THEN /\ LegacyReturn("StoreError")
                     /\ trace' = trace \o gets
                     /\ UNCHANGED layers
            ELSE IF sp.err THEN LegacyReturn("PathEscape") /\ trace' = trace \o gets /\ UNCHANGED layers
            ELSE IF ~regOK
                THEN /\ LegacyReturn("StoreError")
                     /\ trace' = Append(opened, [EvRegister(0, ChainID(fs), content, <<>>, FALSE)
                                                    EXCEPT !.dir = f.oldID])
                     /\ UNCHANGED layers
            ELSE /\ layers' = layers \cup {newLayer}
                 /\ trace' = Append(opened, [EvRegister(0, ChainID(fs), content, newLayer, TRUE)
                                                EXCEPT !.dir = f.oldID])
                 /\ stack' = SetTop([f EXCEPT !.at = "create", !.newLayer = newLayer])
                 /\ UNCHANGED <<pc, err>>
    /\ UNCHANGED <<env, canceled, images, parentOf, tags, loop, batch, deferred, di,
                   loadedMap, todo>>

\* legacyLoadImage, lines 379-392: history, configuration, is.Create.
LegacyCreate ==
    /\ pc = "limg"
    /\ Top.at = "create"
    /\ \E ok \in Outcomes :
        LET f == Top
            h == HistoryFromConfig(TopJSON)
            fs == Append(f.parentID.diffIDs, f.newLayer[Len(f.newLayer)])
            config == MakeConfigFromV1Config(TopJSON, fs, Append(f.parentID.history, h.h))
        IN  IF h.err THEN LegacyReturn("InvalidConfig") /\ UNCHANGED <<images, trace>>
            ELSE IF ~ok
                THEN /\ LegacyReturn("StoreError")
                     /\ trace' = Append(trace, [EvCreate(0, config, FALSE) EXCEPT !.dir = f.oldID])
                     /\ UNCHANGED images
            ELSE /\ images' = images \cup {config}
                 /\ trace' = Append(trace, [EvCreate(0, config, TRUE) EXCEPT !.dir = f.oldID])
                 /\ stack' = SetTop([f EXCEPT !.at = "release", !.imgID = config])
                 /\ UNCHANGED <<pc, err>>
    /\ UNCHANGED <<env, canceled, parentOf, layers, tags, loop, batch, deferred, di,
                   loadedMap, todo>>

\* legacyLoadImage, lines 394-398: release the layer.
LegacyRelease ==
    /\ pc = "limg"
    /\ Top.at = "release"
    /\ \E ok \in Outcomes :
        /\ trace' = Append(trace, [EvRelease(Top.newLayer) EXCEPT !.dir = Top.oldID, !.ok = ok])
        /\ IF ~ok THEN LegacyReturn("StoreError")
           ELSE stack' = SetTop([Top EXCEPT !.at = "link"]) /\ UNCHANGED <<pc, err>>
    /\ UNCHANGED <<env, canceled, stores, loop, batch, deferred, di, loadedMap, todo>>

\* legacyLoadImage, lines 400-407: set the parent, fill the map, return.
LegacyLink ==
    /\ pc = "limg"
    /\ Top.at = "link"
    /\ \E ok \in Outcomes :
        LET f == Top
        IN  IF f.parentID # NoID /\ ~ok
                THEN /\ LegacyReturn("StoreError")
                     /\ trace' = Append(trace, [EvSetParent(f.imgID, f.parentID, FALSE)
                                                   EXCEPT !.dir = f.oldID])
                     /\ UNCHANGED <<parentOf, loadedMap>>
                ELSE /\ parentOf' = IF f.parentID # NoID THEN ImageSetParent(f.imgID, f.parentID)
                                    ELSE parentOf
                     /\ trace' = IF f.parentID # NoID
                                 THEN Append(trace, [EvSetParent(f.imgID, f.parentID, TRUE)
                                                        EXCEPT !.dir = f.oldID])
                                 ELSE trace
                     /\ loadedMap' = {e \in loadedMap : e[1] # f.oldID} \cup {<<f.oldID, f.imgID>>}
                     /\ Pop
    /\ UNCHANGED <<env, canceled, images, layers, tags, loop, batch, deferred, di, todo>>

\* legacyLoad, lines 275-289: open and decode the repositories file.
LegacyRepos ==
    /\ pc = "lrepos"
    /\ LET sp == safePath(tmpDir, "repositories")
       IN  IF sp.err THEN Return("PathEscape") /\ UNCHANGED <<todo, trace>>
           ELSE /\ trace' = Append(trace, EvOpen(0, sp.path))
                /\ IF ~repos.present THEN Return("NotExist") /\ UNCHANGED todo
                   ELSE pc' = "ltags" /\ todo' = repos.entries /\ err' = err
    /\ UNCHANGED <<env, canceled, stores, loop, batch, deferred, di, stack, loadedMap>>

\* The tag loop of a legacyLoad that passes over a name:tag whose legacy id
\* is not in the load map.
LegacyTagSkippingUnknown ==
    /\ pc = "ltags"
    /\ \E e \in todo, ok \in Outcomes :
        LET parsed == ParseTag(e[1])
        IN  IF ~Loaded(e[2])
                THEN todo' = todo \ {e} /\ UNCHANGED <<tags, trace, pc, err>>
            ELSE IF ~parsed.ok
                THEN Return("InvalidTag") /\ UNCHANGED <<tags, trace, todo>>
            ELSE /\ tags' = IF ok THEN RefAddTag(parsed.ref, LoadedID(e[2])) ELSE tags
                 /\ trace' = trace \o setLoadedTag(0, parsed.ref, LoadedID(e[2]), ok)
                 /\ todo' = todo \ {e}
                 /\ UNCHANGED <<pc, err>>
    /\ UNCHANGED <<env, canceled, images, parentOf, layers, loop, batch, deferred, di,
                   stack, loadedMap>>

\* legacyLoad, lines 291-307: one name:tag of the repositories map, which Go
\* ranges over in no fixed order.
LegacyTag ==
    /\ pc = "ltags"
    /\ \E e \in todo, ok \in Outcomes :
        LET parsed == ParseTag(e[1])
        IN  IF ~Loaded(e[2])
                THEN Return("InvalidTargetID") /\ UNCHANGED <<tags, trace, todo>>
            ELSE IF ~parsed.ok
                THEN Return("InvalidTag") /\ UNCHANGED <<tags, trace, todo>>
            ELSE /\ tags' = IF ok THEN RefAddTag(parsed.ref, LoadedID(e[2])) ELSE tags
                 /\ trace' = trace \o setLoadedTag(0, parsed.ref, LoadedID(e[2]), ok)
                 /\ todo' = todo \ {e}
                 /\ UNCHANGED <<pc, err>>
    /\ UNCHANGED <<env, canceled, images, parentOf, layers, loop, batch, deferred, di,
                   stack, loadedMap>>

\* legacyLoad, line 309: return nil.
LegacyFinish ==
    /\ pc = "ltags"
    /\ todo = {}
    /\ Return("none")
    /\ UNCHANGED <<env, canceled, stores, loop, batch, deferred, legacy, trace>>

\* ------------------------------------------------------ the specification
\* The json file of a legacy image directory.
LegacyJSON(id, parent, flavor) == [id |-> id, Parent |-> parent, flavor |-> flavor]

\* The legacy archives: no directory, directory x, directories x and y, or
\* directories x, y and z with two children of one parent, listed before or
\* after it.
LegacyDirs ==
    {{}}
    \cup {{LegacyJSON("x", "", "ok"), LegacyJSON("y", "x", "ok"), LegacyJSON("z", "x", "ok")},
          {LegacyJSON("x", "z", "ok"), LegacyJSON("y", "z", "ok"), LegacyJSON("z", "", "ok")}}
    \cup {{LegacyJSON("x", p, f)} : p \in {"", "x", "y", "../p"}, f \in {"ok", "badhist", "winos"}}
    \cup {{LegacyJSON("x", p, f), LegacyJSON("y", q, "ok")} :
            p \in {"", "x", "y"}, q \in {"", "x", "y", "../p"}, f \in {"ok", "badhist", "winos"}}

\* The repositories files: absent, or a map from name:tag to legacy id.
Repositories ==
    {[present |-> FALSE, entries |-> {}]}
    \cup {[present |-> TRUE, entries |-> e] :
            e \in {{}, {<<"t1", "x">>}, {<<"t1", "x">>, <<"t2", "y">>}, {<<"t2", "z">>}}}

\* The archives: with a manifest (decodable or not), or legacy.
Archives ==
    {[state |-> st, manifest |-> <<>>, ldirs |-> {}, repos |-> [present |-> FALSE, entries |-> {}]] :
        st \in {"null", "malformed"}}
    \cup {[state |-> "list", manifest |-> m, ldirs |-> {}, repos |-> [present |-> FALSE, entries |-> {}]] :
            m \in SeqsUpTo(Items, MaxEntries)}
    \cup {[state |-> "absent", manifest |-> <<>>, ldirs |-> d, repos |-> r] :
            d \in LegacyDirs, r \in Repositories}

\* What the stores hold when Load is called: nothing, or an earlier import of
\* Base tagged t1.
StoreStates ==
    { [images |-> {}, layers |-> {}, tags |-> {}],
      [images |-> {Base}, layers |-> {ChainID(<<"d1">>)}, tags |-> {<<"t1", Base>>}] }

\* The hosts and platform filters an archive is loaded with.
Settings(a) ==
    {st \in [goos : {"linux", "windows"}, matcher : {"none", "amd64"}] :
        /\ st.goos = "windows" => Len(a.manifest) <= 1
        /\ st.matcher = "amd64" => a.state = "list"}

InitWith(f) ==
    /\ faulty = f
    /\ \E a \in Archives :
        /\ manifestState = a.state
        /\ manifest = a.manifest
        /\ ldirs = a.ldirs
        /\ repos = a.repos
        /\ \E st \in Settings(a) : goos = st.goos /\ platformMatcher = st.matcher
    /\ \E st \in StoreStates : images = st.images /\ layers = st.layers /\ tags = st.tags
    /\ parentOf = {}
    /\ canceled = FALSE
    /\ pc = "start"
    /\ err = "none"
    /\ idx = 0 /\ li = 0 /\ ti = 0 /\ rootFS = <<>> /\ imgID = NoID
    /\ parentLinks = <<>> /\ links = <<>> /\ pi = 0
    /\ imageIDsStr = <<>> /\ imageRefCount = 0
    /\ deferred = <<>>
    /\ di = 0 /\ stack = <<>> /\ loadedMap = {} /\ todo = {}
    /\ run = 1
    /\ snap = [images |-> images, layers |-> layers, tags |-> tags]
    /\ trace = <<>>

Init == InitWith(TRUE)

Next ==
    \/ Stage \/ ReadManifest \/ LoadEntry \/ ResolveLayer \/ CreateImage \/ AssignTag
    \/ FinishEntry \/ EndEntries \/ SetParent \/ Finish \/ Unwind \/ Cancel
    \/ LegacyStart \/ LegacyNextDir \/ LegacyEnter \/ LegacyParent \/ LegacyLayer
    \/ LegacyCreate \/ LegacyRelease \/ LegacyLink \/ LegacyRepos \/ LegacyTag \/ LegacyFinish

Spec == Init /\ [][Next]_vars

\* Load is called again with the same archive against the same stores, by a
\* caller that does not cancel.
Reload ==
    /\ pc = "done"
    /\ run = 1
    /\ err = "none"
    /\ run' = 2
    /\ snap' = [images |-> images, layers |-> layers, tags |-> tags]
    /\ pc' = "start"
    /\ canceled' = FALSE
    /\ idx' = 0 /\ li' = 0 /\ ti' = 0 /\ rootFS' = <<>> /\ imgID' = NoID
    /\ parentLinks' = <<>> /\ links' = <<>> /\ pi' = 0
    /\ imageIDsStr' = <<>> /\ imageRefCount' = 0
    /\ di' = 0 /\ stack' = <<>> /\ loadedMap' = {} /\ todo' = {}
    /\ UNCHANGED <<goos, platformMatcher, faulty, manifestState, manifest, ldirs, repos,
                   stores, err, deferred, trace>>

InitTwice == InitWith(FALSE)

NextTwice == Next \/ Reload

SpecTwice == InitTwice /\ [][NextTwice]_vars

\* The History entries of the images setParentID is given: Created absent
\* (0) or one of two instants, and one of two commands.
HistoryEntries == {H(c, by) : c \in {0, 1, 2}, by \in {"a", "b"}}

\* Load at the parent-link phase with one validated link between two images
\* of the batch, both in the image store, with any Histories.  The trace
\* records what Load does from here on.
InitParent ==
    /\ faulty = FALSE
    /\ manifestState = "list" /\ ldirs = {}
    /\ repos = [present |-> FALSE, entries |-> {}]
    /\ goos = "linux" /\ platformMatcher = "none"
    /\ \E hc \in SeqsUpTo(HistoryEntries, MaxHist), hp \in SeqsUpTo(HistoryEntries, MaxHist) :
        LET child == Img("child", "linux", "amd64", <<"d1", "d2">>, hc)
            parent == Img("parent", "linux", "amd64", <<"d1">>, hp)
        IN  /\ manifest = <<Item("parent", <<"d1tar">>, <<>>, NoID),
                         Item("child", <<"d1tar", "d2tar">>, <<>>, parent)>>
            /\ images = {child, parent}
            /\ parentLinks = <<Link(parent, NoID), Link(child, parent)>>
            /\ links = validatedParentLinks(parentLinks)
            /\ imageIDsStr = <<parent, child>>
    /\ layers = {ChainID(<<"d1">>), ChainID(<<"d1", "d2">>)}
    /\ tags = {}
    /\ parentOf = {}
    /\ canceled = FALSE
    /\ pc = "parents"
    /\ err = "none"
    /\ idx = 3 /\ li = 3 /\ ti = 1 /\ rootFS = <<"d1", "d2">> /\ imgID = links[2].id
    /\ pi = 1
    /\ imageRefCount = 0
    /\ deferred = <<>>
    /\ di = 0 /\ stack = <<>> /\ loadedMap = {} /\ todo = {}
    /\ run = 1
    /\ snap = [images |-> {}, layers |-> {}, tags |-> {}]
    /\ trace = <<>>

NextParent == SetParent \/ Finish \/ Unwind

SpecParent == InitParent /\ [][NextParent]_vars

\* ----------------------------------------------------------------- claims
\* The positions of the trace holding an event of one of the operations.
At(ops) == {i \in 1..Len(trace) : trace[i].op \in ops}

\* The chain a registration was made for: the chain that was looked up and
\* missed, i.e. the parent chain it was keyed by plus the expected diff-id.
WantedChain(e) == Append(e.key, e.s)

\* The registrations of the manifest path.
ManifestRegs == {i \in At({"register"}) : trace[i].k > 0}

\* C1: within one manifest-format Load at most one layer registration is
\* performed for a chain the layer store did not hold when Load started,
\* however many entries share it; for a chain the store held at the start
\* the lookup hits and neither the blob is opened nor a registration made.
C1_RegisterOncePerChain ==
    /\ \A i, j \in ManifestRegs :
        WantedChain(trace[i]) = WantedChain(trace[j]) => i = j
    /\ \A i \in ManifestRegs : WantedChain(trace[i]) \notin snap.layers
    /\ \A i \in At({"get"}) :
        trace[i].chain \in snap.layers =>
            /\ trace[i].ok
            /\ i < Len(trace) => trace[i + 1].op \notin {"open", "register"}

\* C1 witness: a Load that succeeded after registering a chain for one entry
\* and finding it in the store for a later entry, and that also found a chain
\* the store held from the start.
C1_Witness ==
    /\ pc = "done" /\ err = "none"
    /\ \E i \in ManifestRegs, j \in At({"get"}) :
        /\ trace[i].ok /\ trace[j].ok
        /\ trace[j].chain = trace[i].chain
        /\ trace[j].k > trace[i].k
    /\ \E j \in At({"get"}) : trace[j].chain \in snap.layers

\* The layer handles Load holds on chain c: obtained by a lookup hit or a
\* successful registration, minus the releases.
Obtained(c) ==
    Cardinality({i \in At({"get", "register"}) : trace[i].ok /\ trace[i].chain = c})
Released(c) == Cardinality({i \in At({"release"}) : trace[i].chain = c})
HandleChains == {trace[i].chain : i \in At({"get", "register", "release"})}

\* C3: every layer handle Load obtained, on the manifest path or the legacy
\* path, is released exactly once by the time Load has returned, whatever the
\* outcome, and no handle is released more often than it was obtained.
C3_EveryHandleReleasedOnce ==
    /\ \A c \in HandleChains : Released(c) <= Obtained(c)
    /\ pc = "done" => \A c \in HandleChains : Released(c) = Obtained(c)

\* C3 on the manifest path alone, where the releases are deferred.
ManifestHandlesReleased == manifestState # "absent" => C3_EveryHandleReleasedOnce

\* The calls that commit state to a store.
Mutations == {"register", "create", "addtag", "setparent"}

\* C4: Load opens no file outside the staging root, whatever names the
\* archive gives (every name is resolved by safePath before the open), and
\* once the sanitizer has rejected a name (PathEscape) no store is changed:
\* not by the step that fails, and not afterwards.
C4_OpenOnlySanitized ==
    /\ [](\A i \in At({"open"}) : trace[i].s # "outside")
    /\ [][err' = "PathEscape" =>
            /\ images' = images /\ parentOf' = parentOf /\ layers' = layers /\ tags' = tags
            /\ \A i \in At({"open"} \cup Mutations)' : i <= Len(trace)]_vars

\* C4 witness: Load has returned PathEscape for a later entry's hostile name
\* after it had opened files and created an image for an earlier entry.
C4_Witness ==
    /\ pc = "done" /\ err = "PathEscape"
    /\ \E i \in At({"create"}) : trace[i].ok
    /\ At({"open"}) # {}

\* The last successful add-tag of ref in the trace, 0 when there is none.
LastTagged(ref) ==
    LET hits == {i \in At({"addtag"}) : trace[i].ok /\ trace[i].s = ref}
    IN  IF hits = {} THEN 0 ELSE CHOOSE i \in hits : \A j \in hits : j <= i

\* C5: Load rolls nothing back: at every point, also after a failure and
\* when Load has returned, every image it created is in the image store
\* together with every image the store held before, and every reference it
\* tagged is in the reference store, mapped as its last assignment left it.
C5_NothingRolledBack ==
    /\ snap.images \subseteq images
    /\ \A i \in At({"create"}) : trace[i].ok => trace[i].id \in images
    /\ \A t \in snap.tags : RefGet(t[1]) # NoID
    /\ \A ref \in RefNames :
        LastTagged(ref) # 0 => RefGet(ref) = trace[LastTagged(ref)].id

\* C5 witness: Load has returned an error while processing the second entry,
\* after creating and tagging the image of the first.
C5_Witness ==
    /\ pc = "done" /\ err # "none" /\ idx = 2
    /\ \E i \in At({"create"}) : trace[i].ok /\ trace[i].k = 1
    /\ \E i \in At({"addtag"}) : trace[i].ok /\ trace[i].k = 1

\* The store calls whose failure Load is meant to return.
Commits == {"register", "create", "isget", "setparent", "addtag"}

\* C6: the first failing store call aborts Load: after a failed layer
\* registration, image creation, image get, set-parent or add-tag nothing
\* follows but the deferred releases, and Load returns an error.
C6_FirstErrorAborts ==
    \A i \in At(Commits) :
        ~trace[i].ok =>
            /\ \A j \in (i + 1)..Len(trace) : trace[j].op = "release"
            /\ pc = "done" => err # "none"

\* Load has returned nil from its second call on the archive.
SecondLoadDone == run = 2 /\ pc = "done" /\ err = "none"

\* No ChainID was registered twice, over everything done so far.
RegisteredOncePerChain ==
    \A i, j \in At({"register"}) : trace[i].chain = trace[j].chain => i = j

\* C2 as stated: for every valid archive, of either format, a second Load
\* ends with the image ids and tag mappings of the first, and over both calls
\* no ChainID is registered more than once.
C2_LoadTwiceAsStated ==
    SecondLoadDone =>
        /\ images = snap.images
        /\ tags = snap.tags
        /\ RegisteredOncePerChain

\* C2 amended: a second Load ends with the image ids and tag mappings of the
\* first; for a manifest-format archive no ChainID is registered more than
\* once over both calls; for a legacy archive each call registers the layer
\* of each directory once, so twice over both calls.
C2_LoadTwice ==
    SecondLoadDone =>
        /\ images = snap.images
        /\ tags = snap.tags
        /\ manifestState = "list" => RegisteredOncePerChain
        /\ manifestState = "absent" =>
            \A j \in ldirs :
                Cardinality({i \in At({"register"}) : trace[i].dir = j.id}) = 2

\* C2 witness: the second Load of a manifest-format archive has returned nil,
\* the first one having registered a layer and assigned a tag.
C2_Witness ==
    /\ SecondLoadDone
    /\ manifestState = "list"
    /\ At({"register"}) # {}
    /\ \E i \in At({"addtag"}) : RefGet(trace[i].s) = trace[i].id

\* Entry k names a readable config whose diff-id count differs from the
\* entry's layer count.
CountMismatch(k) ==
    /\ ~safePath(tmpDir, manifest[k].Config).err
    /\ ConfigOf(k).err = "none"
    /\ Len(manifest[k].Layers) # Len(ConfigOf(k).img.diffIDs)

\* Entry k is one the loop body goes on with after the OS check and the
\* platform filter.
PassesFilter(k) ==
    /\ CheckOS(goos, ConfigOf(k).img.os)
    /\ PlatformMatches(platformMatcher, ConfigOf(k).img)

C8_NullEmptyMissing ==
    /\ (manifestState = "null" /\ trace # <<>>) =>
            /\ pc \in {"return", "done"} /\ err = "InvalidManifest"
            /\ \A i \in 1..Len(trace) : trace[i].op = "open"
    /\ (manifestState = "list" /\ manifest = <<>>) =>
            /\ \A i \in 1..Len(trace) : trace[i].op = "open"
            /\ parentOf = {} /\ images = snap.images /\ tags = snap.tags /\ layers = snap.layers
            /\ (pc = "done" /\ trace # <<>>) => err = "none"
    /\ manifestState = "absent" =>
            /\ err \notin {"InvalidManifest"}
            /\ (pc = "done" /\ err \notin {"Canceled", "ExtractionFailure"}) =>
                    \/ err = "UnsupportedLegacyFormat"
                    \/ At({"readdir"}) # {}

\* C8 witness: Load has rejected a null manifest.
C8_Witness == manifestState = "null" /\ pc = "done" /\ err = "InvalidManifest"

\* Load has reached the parent-link phase of the manifest path.
InParentPhase == pi > 0

\* The ids of the images loaded in this batch.
BatchIDs == {parentLinks[j].id : j \in 1..Len(parentLinks)}

\* The parent of link i names another image of the batch.
ParentInBatch(i) == parentLinks[i].parentID \in BatchIDs \ {parentLinks[i].id}

\* The set-parent calls of the manifest path.
ManifestSetParents == {i \in At({"setparent"}) : trace[i].dir = ""}

\* C9: validatedParentLinks returns the links in the same order with the same
\* child ids, and keeps the parent-id of a link exactly when another image of
\* the batch has that id; otherwise (parent not in the batch, filtered out,
\* self-reference, empty) the parent-id is cleared, set-parent is not called
\* for the link, and a Load whose links are all cleared does not fail in the
\* parent phase.
C9_ValidatedParentLinks ==
    InParentPhase =>
        /\ Len(links) = Len(parentLinks)
        /\ \A i \in 1..Len(links) :
            /\ links[i].id = parentLinks[i].id
            /\ links[i].parentID =
                   IF ParentInBatch(i) THEN parentLinks[i].parentID ELSE NoID
        /\ \A e \in ManifestSetParents :
            \E i \in 1..Len(parentLinks) :
                /\ ParentInBatch(i)
                /\ trace[e].id = parentLinks[i].id
                /\ trace[e].parent = parentLinks[i].parentID
        /\ (\A i \in 1..Len(parentLinks) : ~ParentInBatch(i)) =>
            /\ At({"isget", "setparent"}) = {}
            /\ pc = "done" => err = "none"

\* C9 witness: Load has returned nil after dropping a dangling or
\* self-referencing parent of one image and keeping the parent of another.
C9_Witness ==
    /\ pc = "done" /\ err = "none" /\ InParentPhase
    /\ \E i \in 1..Len(links) : parentLinks[i].parentID # NoID /\ links[i].parentID = NoID

\* The child's History is the parent's followed by exactly one more entry.
ExtendsByOne(child, parent) ==
    /\ Len(child.history) = Len(parent.history) + 1
    /\ \A i \in 1..Len(parent.history) : child.history[i] = parent.history[i]

\* Neither image has any History.
BothEmpty(child, parent) == child.history = <<>> /\ parent.history = <<>>

\* Load has returned from setParentID for the link at pi.
StoppedAtLink == pc \in {"return", "done"} /\ pi \in 1..Len(links)

\* C10 as stated: set-parent is called on the manifest path only for a child
\* whose History is its parent's followed by exactly one entry; for any other
\* pair of the batch Load fails with InvalidParent.
C10_InvalidParentAsStated ==
    /\ \A e \in ManifestSetParents : ExtendsByOne(trace[e].id, trace[e].parent)
    /\ (pc = "done" /\ err = "none" /\ InParentPhase) =>
        \A i \in 1..Len(links) :
            links[i].parentID # NoID => ExtendsByOne(links[i].id, links[i].parentID)

\* C10 amended: set-parent is called on the manifest path only for a pair
\* whose child History is the parent's followed by exactly one entry, or
\* whose Histories are both empty; for any other pair of the batch that Load
\* reaches, Load fails: with InvalidParent once both images were read from
\* the image store, and InvalidParent is returned for no other reason.
C10_InvalidParent ==
    /\ \A e \in ManifestSetParents :
        \/ ExtendsByOne(trace[e].id, trace[e].parent)
        \/ BothEmpty(trace[e].id, trace[e].parent)
    /\ (pc = "done" /\ err = "none" /\ InParentPhase) =>
        \A i \in 1..Len(links) :
            links[i].parentID # NoID =>
                \/ ExtendsByOne(links[i].id, links[i].parentID)
                \/ BothEmpty(links[i].id, links[i].parentID)
    /\ (StoppedAtLink /\ links[pi].parentID # NoID /\ err # "StoreError"
            /\ ~ExtendsByOne(links[pi].id, links[pi].parentID)
            /\ ~BothEmpty(links[pi].id, links[pi].parentID)) => err = "InvalidParent"
    /\ err = "InvalidParent" =>
        /\ StoppedAtLink
        /\ links[pi].parentID # NoID
        /\ ~ExtendsByOne(links[pi].id, links[pi].parentID)
        /\ \A e \in ManifestSetParents :
            ~(trace[e].id = links[pi].id /\ trace[e].parent = links[pi].parentID)

\* C10 witness: Load has returned InvalidParent for a pair of the batch.
C10_Witness ==
    /\ pc = "done" /\ err = "InvalidParent"
    /\ Cardinality(BatchIDs) = 2

\* ------------------------------------------------------ claims, continued
\* The greatest element of a non-empty set of numbers.
Last(S) == CHOOSE i \in S : \A j \in S : j <= i

\* The successful add-tag calls of ref among the first i - 1 events.
TaggedBefore(ref, i) == {j \in At({"addtag"}) : j < i /\ trace[j].ok /\ trace[j].s = ref}

\* The id the reference store mapped ref to when event i happened: the id of
\* the last successful add-tag before it, else what the store held from the
\* start (NoID when it held nothing).
TagBefore(ref, i) ==
    IF TaggedBefore(ref, i) # {} THEN trace[Last(TaggedBefore(ref, i))].id
    ELSE IF \E t \in snap.tags : t[1] = ref THEN (CHOOSE t \in snap.tags : t[1] = ref)[2]
    ELSE NoID

\* Add-tag call i re-targets a tag that maps to a different image.
Retargets(i) == TagBefore(trace[i].s, i) \notin {NoID, trace[i].id}

\* The manifest entries for which Load created an image.
CreatedEntries == {trace[i].k : i \in {j \in At({"create"}) : trace[j].ok /\ trace[j].k > 0}}

\* The manifest entries that carry ref among their repo tags.
EntriesTagged(ref) ==
    {k \in 1..Len(manifest) : \E t \in 1..Len(manifest[k].RepoTags) :
        ParseTag(manifest[k].RepoTags[t]) = [ok |-> TRUE, ref |-> ref]}

\* The notices are emitted exactly for the re-targeting add-tag calls, each
\* naming the image the tag mapped to, and that image stays in the image
\* store.
NoticeOnlyOnRetarget ==
    /\ \A i \in At({"notice"}) :
        /\ i < Len(trace) => /\ trace[i + 1].op = "addtag"
                             /\ trace[i + 1].s = trace[i].s
                             /\ Retargets(i + 1)
                             /\ trace[i].id = TagBefore(trace[i].s, i + 1)
    /\ \A i \in At({"addtag"}) :
        Retargets(i) => /\ trace[i - 1].op = "notice"
                        /\ trace[i - 1].s = trace[i].s
                        /\ TagBefore(trace[i].s, i) \in images

\* C11: an add-tag of a tag that maps to a different image succeeds: a
\* notice is emitted, the mapping is overwritten and the image the tag named
\* before stays in the image store; a notice is emitted for no other add-tag;
\* and after a Load of a manifest that returned nil every tag carried by
\* entries Load created an image for maps to the image of the last of them.
C11_TagRetarget ==
    /\ NoticeOnlyOnRetarget
    /\ \A i \in At({"addtag"}) :
        (Retargets(i) /\ TaggedBefore(trace[i].s, Len(trace) + 1) \subseteq 1..i) =>
            RefGet(trace[i].s) = trace[i].id
    /\ (pc = "done" /\ err = "none" /\ manifestState = "list") =>
        \A ref \in RefNames :
            LET K == EntriesTagged(ref) \cap CreatedEntries
            IN  K # {} => RefGet(ref) = ConfigOf(Last(K)).img

\* The part of C11 that does not depend on the outcome of add-tag, and the
\* rest of it for the add-tag calls the reference store accepted.
C11_TagRetargetWhenStored ==
    /\ NoticeOnlyOnRetarget
    /\ \A i \in At({"addtag"}) :
        (trace[i].ok /\ Retargets(i) /\ TaggedBefore(trace[i].s, Len(trace) + 1) \subseteq 1..i) =>
            RefGet(trace[i].s) = trace[i].id
    /\ (pc = "done" /\ err = "none" /\ manifestState = "list"
            /\ \A i \in At({"addtag"}) : trace[i].ok) =>
        \A ref \in RefNames :
            LET K == EntriesTagged(ref) \cap CreatedEntries
            IN  K # {} => RefGet(ref) = ConfigOf(Last(K)).img

\* Load got as far as looking for the manifest: staging succeeded.
Staged == pc \notin {"start", "manifest"} /\ err \notin {"Canceled", "ExtractionFailure"}

\* C12: with no manifest in the archive, on a host whose OS family has no
\* legacy support, Load returns UnsupportedLegacyFormat as soon as the
\* archive is staged: the staged directories are never listed, no file of
\* theirs is opened, and no call that mutates a store is made.
C12_UnsupportedLegacyFormat ==
    (manifestState = "absent" /\ goos = "windows") =>
        /\ At({"readdir", "open", "isget"} \cup Mutations) = {}
        /\ <<images, parentOf, layers, tags>> = <<snap.images, {}, snap.layers, snap.tags>>
        /\ (Staged /\ pc \in {"return", "done"}) => err = "UnsupportedLegacyFormat"
        /\ pc \notin {"ldirs", "limg", "lrepos", "ltags", "overflow"}

\* C12 witness: Load of a legacy archive with image directories has returned
\* UnsupportedLegacyFormat.
C12_Witness ==
    /\ manifestState = "absent" /\ goos = "windows" /\ ldirs # {}
    /\ pc = "done" /\ err = "UnsupportedLegacyFormat"

\* Load is at a poll point of the manifest path: the start of a manifest
\* entry or the start of a per-layer step.
AtPoll == (pc = "entry" /\ idx <= Len(manifest)) \/ pc = "layers"

\* The events the trace gained in this step.
NewEvents == {i \in DOMAIN trace' : i > Len(trace)}

\* C13: on the manifest path, when ctx is done at the poll at the start of a
\* manifest entry or of a per-layer step, Load returns Canceled there without
\* a call; once Load is returning Canceled it makes no lookup, registration,
\* image creation, tag assignment, event or set-parent and changes no store
\* (what was committed stays); and when it has returned every layer handle
\* it obtained has been released.
C13_CanceledAtPoll ==
    /\ [][(AtPoll /\ canceled) =>
            /\ pc' = "return" /\ err' = "Canceled"
            /\ trace' = trace
            /\ <<images, parentOf, layers, tags>>' = <<images, parentOf, layers, tags>>]_vars
    /\ [][(err = "Canceled" /\ manifestState # "absent") =>
            /\ \A i \in NewEvents : trace'[i].op = "release"
            /\ <<images, parentOf, layers, tags>>' = <<images, parentOf, layers, tags>>
            /\ err' = "Canceled"]_vars
    /\ []((pc = "done" /\ err = "Canceled" /\ manifestState # "absent") =>
            /\ \A c \in HandleChains : Released(c) = Obtained(c)
            /\ \A i \in At({"create"}) : trace[i].ok => trace[i].id \in images
            /\ \A i \in At({"register"}) : trace[i].ok => trace[i].chain \in layers)

\* C13 witness: Load has returned Canceled from the poll of a per-layer step
\* of the second entry, after creating the image of the first, and has
\* released the layer handles it held.
C13_Witness ==
    /\ pc = "done" /\ err = "Canceled" /\ idx = 2 /\ li = 2
    /\ \E i \in At({"create"}) : trace[i].ok /\ trace[i].k = 1
    /\ \E i \in At({"get", "register"}) : trace[i].ok /\ trace[i].k = 2
    /\ At({"release"}) # {}

\* Manifest entry k names a readable config.
Readable(k) ==
    /\ manifestState = "list" /\ k \in 1..Len(manifest)
    /\ ~safePath(tmpDir, manifest[k].Config).err
    /\ ConfigOf(k).err = "none"

\* The configured platform filter excludes the image of manifest entry k.
Excluded(k) ==
    /\ Readable(k)
    /\ platformMatcher # "none"
    /\ ConfigOf(k).img.arch # platformMatcher

\* What Load does on behalf of one manifest entry past reading its config.
EntryWork == {"get", "register", "create", "notice", "addtag", "line_tag", "event"}

\* Nothing was done for an excluded entry: no call or output carries its
\* index, and no ParentLink holds an image the filter excludes.
NothingForExcluded ==
    /\ \A i \in At(EntryWork) : ~Excluded(trace[i].k)
    /\ \A i \in At({"open"}) :
        Excluded(trace[i].k) => trace[i].s = safePath(tmpDir, manifest[trace[i].k].Config).path
    /\ \A j \in 1..Len(parentLinks) :
        platformMatcher # "none" => parentLinks[j].id.arch = platformMatcher

\* Load, not canceled, is at the head of the loop with an excluded entry.
AtExcluded == pc = "entry" /\ Excluded(idx) /\ ~canceled /\ canceled' = canceled

\* C14 as stated: for every entry the platform filter excludes nothing is
\* resolved, registered, created, tagged, linked or logged, and Load goes on
\* to the next entry.
C14_FilteredEntrySkippedAsStated ==
    /\ []NothingForExcluded
    /\ [][AtExcluded => (pc' = "entry" /\ idx' = idx + 1 /\ err' = err)]_vars

\* C14 amended: for every entry the platform filter excludes nothing is
\* resolved, registered, created, tagged, linked or logged; Load goes on to
\* the next entry when the host can run the entry's OS, and returns
\* PlatformUnsupported when it cannot, the OS check coming first.
C14_FilteredEntrySkipped ==
    /\ []NothingForExcluded
    /\ [][AtExcluded =>
            IF ConfigOf(idx).img.os = goos
                THEN pc' = "entry" /\ idx' = idx + 1 /\ err' = err
                ELSE pc' = "return" /\ err' = "PlatformUnsupported"]_vars

\* C14 witness: Load has returned nil after skipping its first entry, which
\* carries a tag, and creating the image of its second.
C14_Witness ==
    /\ pc = "done" /\ err = "none"
    /\ Excluded(1) /\ manifest[1].RepoTags # <<>>
    /\ 2 \in CreatedEntries

\* The created entries without repo tags.
UntaggedEntries == {k \in CreatedEntries : manifest[k].RepoTags = <<>>}

\* C15: when a Load of a manifest has returned nil, the output holds for
\* every entry it created an image for one "Loaded image" line per repo tag
\* of the entry, or, for an entry without tags, a "Loaded image ID" line with
\* its id; and a "Loaded image ID" line is printed only for the image of an
\* entry without tags.
C15_OneLinePerImage ==
    (pc = "done" /\ err = "none" /\ manifestState = "list") =>
        /\ \A k \in CreatedEntries \ UntaggedEntries :
            Cardinality({i \in At({"line_tag"}) : trace[i].k = k}) = Len(manifest[k].RepoTags)
        /\ \A k \in UntaggedEntries :
            \E i \in At({"line_id"}) : trace[i].id = ConfigOf(k).img
        /\ \A i \in At({"line_id"}) :
            \E k \in UntaggedEntries : ConfigOf(k).img = trace[i].id

\* What the code does instead: the "Loaded image ID" lines are printed for
\* all created images or for none, as the last created entry has no tags or
\* has some.
IDLinesFollowLastEntry ==
    (pc = "done" /\ err = "none" /\ manifestState = "list" /\ CreatedEntries # {}) =>
        IF Last(CreatedEntries) \in UntaggedEntries
            THEN \A k \in CreatedEntries : \E i \in At({"line_id"}) : trace[i].id = ConfigOf(k).img
            ELSE At({"line_id"}) = {}

\* C16: the legacy loader terminates on every archive, parent cycles
\* included, because the load map short-circuits re-entry: legacyLoadImage
\* is never entered for an id while a call for that id is still running (such
\* a call would find the map as the running one found it and recurse the same
\* way again), and the recursion never outgrows the depth the model follows.
C16_LegacyTerminates ==
    /\ \A i, j \in 1..Len(stack) : stack[i].oldID = stack[j].oldID => i = j
    /\ pc # "overflow"

\* The recursion is bounded for the archives whose parent references form
\* no cycle.
Acyclic ==
    \A j \in ldirs : j.Parent # j.id /\ \A q \in ldirs : ~(j.Parent = q.id /\ q.Parent = j.id)

LegacyTerminatesIfAcyclic == Acyclic => C16_LegacyTerminates

\* The pair setParentID is called with in SpecParent.
PairChild == links[2].id
PairParent == links[2].parentID

\* Load has returned after calling setParentID for the pair.
PairSettled == pc = "done" /\ Len(links) = 2 /\ PairParent # NoID

\* checkValidParent accepted the pair: set-parent was called and Load
\* returned nil; it rejected the pair when Load returned InvalidParent.
PairAccepted ==
    /\ err = "none"
    /\ \E i \in At({"setparent"}) : trace[i].id = PairChild /\ trace[i].parent = PairParent

PairRejected == err = "InvalidParent" /\ At({"setparent"}) = {}

\* C17 as stated: checkValidParent accepts a pair exactly when the child's
\* History has zero or one entries more than the parent's and at every shared
\* position the two entries agree on every field but Created, which is absent
\* in both or present in both, whatever its values.
C17_CheckValidParentAsStated ==
    PairSettled =>
        LET c == PairChild.history
            p == PairParent.history
            stated == /\ Len(c) \in {Len(p), Len(p) + 1}
                      /\ \A i \in 1..Len(p) :
                            /\ c[i].CreatedBy = p[i].CreatedBy
                            /\ (c[i].Created = 0) = (p[i].Created = 0)
        IN  IF stated THEN PairAccepted ELSE PairRejected

\* C17 amended: checkValidParent accepts a pair exactly when both Histories
\* are empty, or the child's History has exactly one entry more than the
\* parent's and at every shared position the two entries agree on every
\* field, Created included (absent in both, or the same instant in both).
C17_CheckValidParent ==
    PairSettled =>
        LET c == PairChild.history
            p == PairParent.history
            valid == \/ c = <<>> /\ p = <<>>
                     \/ /\ Len(c) = Len(p) + 1
                        /\ \A i \in 1..Len(p) : c[i] = p[i]
        IN  IF valid THEN PairAccepted ELSE PairRejected

\* C17 witness: a pair was accepted whose parent has a History entry that
\* carries a Created value.
C17_Witness ==
    /\ PairSettled /\ PairAccepted
    /\ PairParent.history # <<>>
    /\ PairParent.history[1].Created # 0

\* The diff-ids of the config of manifest entry k, and their first n.
DiffIDs(k) == ConfigOf(k).img.diffIDs
Prefix(d, n) == SubSeq(d, 1, n)

\* The layers resolved for entry k before event i: lookup hits and
\* successful registrations.
ResolvedBefore(k, i) ==
    {e \in At({"get", "register"}) : e < i /\ trace[e].k = k /\ trace[e].ok}

\* Registration e of the manifest path returned a layer whose diff-id is not
\* the one the config expects.
Mismatched(e) == trace[e].ok /\ trace[e].chain[Len(trace[e].chain)] # trace[e].s

\* C18: on the manifest path is.Create is called for an entry only after,
\* for every position of the config's diff-ids, a layer was resolved (found
\* or registered) whose diff-id is the config's at that position; the n-th
\* lookup of an entry asks for the ChainID of the first n diff-ids, and a
\* registration, made after a miss, is keyed by the chain of the diff-ids
\* before it; a registered layer with another diff-id makes Load return
\* DiffIDMismatch with no image created for the entry, and Load returns
\* DiffIDMismatch for no other reason.
C18_CreateAfterDiffIDsMatch ==
    /\ \A i \in At({"create"}) :
        trace[i].k > 0 =>
            \A n \in 1..Len(DiffIDs(trace[i].k)) :
                \E e \in ResolvedBefore(trace[i].k, i) :
                    /\ Len(trace[e].chain) = n
                    /\ trace[e].chain[n] = DiffIDs(trace[i].k)[n]
    /\ \A e \in At({"get"}) :
        LET k == trace[e].k
            n == Cardinality({g \in At({"get"}) : g <= e /\ trace[g].k = k})
        IN  /\ n <= Len(DiffIDs(k))
            /\ trace[e].chain = ChainID(Prefix(DiffIDs(k), n))
    /\ \A e \in ManifestRegs :
        /\ trace[e - 2].op = "get" /\ trace[e - 2].k = trace[e].k /\ ~trace[e - 2].ok
        /\ trace[e].key = ChainID(Prefix(trace[e - 2].chain, Len(trace[e - 2].chain) - 1))
        /\ Append(trace[e].key, trace[e].s) = trace[e - 2].chain
        /\ Mismatched(e) =>
            /\ pc \in {"return", "done"} /\ err = "DiffIDMismatch"
            /\ \A i \in At(EntryWork) : i <= e
            /\ \A i \in At({"create"}) : trace[i].k # trace[e].k
    /\ err = "DiffIDMismatch" => \E e \in ManifestRegs : Mismatched(e)

\* C18 witness: Load has returned DiffIDMismatch for an entry whose first
\* layer it found in the store and whose second layer, freshly registered,
\* has another diff-id than the config's.
C18_Witness ==
    /\ pc = "done" /\ err = "DiffIDMismatch"
    /\ \E e \in ManifestRegs :
        /\ Mismatched(e) /\ Len(trace[e].key) = 1
        /\ \E g \in At({"get"}) : trace[g].k = trace[e].k /\ trace[g].ok

\* The load events emitted for manifest entry k.
EventsOf(k) == {i \in At({"event"}) : trace[i].k = k}

\* Load is through with entry k: it went on to a later entry or returned.
EntryOver(k) == idx > k \/ pc \in {"return", "done"}

\* Every load event belongs to an entry whose image was created before it
\* and carries the id of that image.
EventsOnlyForCreated ==
    \A i \in At({"event"}) :
        \E c \in At({"create"}) :
            c < i /\ trace[c].ok /\ trace[c].k = trace[i].k /\ trace[c].id = trace[i].id

\* C19 as stated: for every manifest entry whose image Load created exactly
\* one load event with the image id is emitted, also when Load returns
\* InvalidTag for the entry; no event is emitted for any other entry.
C19_OneEventPerCreatedImageAsStated ==
    manifestState = "list" =>
        /\ EventsOnlyForCreated
        /\ \A k \in CreatedEntries : EntryOver(k) => Cardinality(EventsOf(k)) = 1

\* C19 amended: for every manifest entry whose image Load created and whose
\* repo tags all parsed exactly one load event with the image id is emitted,
\* after the tags; when a repo tag is rejected Load returns InvalidTag with
\* the image created and no event for it; no event is emitted for an entry
\* without a created image.
C19_OneEventPerCreatedImage ==
    manifestState = "list" =>
        /\ EventsOnlyForCreated
        /\ \A k \in CreatedEntries :
            EntryOver(k) =>
                IF idx = k
                    THEN err = "InvalidTag" /\ EventsOf(k) = {}
                    ELSE Cardinality(EventsOf(k)) = 1
        /\ err = "InvalidTag" => idx \in CreatedEntries

\* C19 witness: Load has returned InvalidTag for its second entry after
\* creating its image and assigning its first tag, the first entry having
\* been loaded and logged.
C19_Witness ==
    /\ pc = "done" /\ err = "InvalidTag" /\ idx = 2
    /\ {1, 2} \subseteq CreatedEntries
    /\ EventsOf(1) # {}
    /\ \E i \in At({"addtag"}) : trace[i].k = 2

\* The (child, parent) pairs of the set-parent calls that succeeded.
CommittedPairs == {<<trace[e].id, trace[e].parent>> : e \in {i \in ManifestSetParents : trace[i].ok}}

\* The pairs a manifest asks for, as a function of the set of its loaded
\* entries and of nothing else: the entry's image with its parent, for every
\* parent that is the image of a loaded entry and not the child itself.
WantedPairs ==
    {<<ConfigOf(k).img, manifest[k].Parent>> :
        k \in {c \in CreatedEntries :
                \E q \in CreatedEntries :
                    /\ ConfigOf(q).img = manifest[c].Parent
                    /\ ConfigOf(q).img # ConfigOf(c).img}}

\* C20: the parents are assigned in a phase of their own: set-parent is
\* called only when the loop over the manifest is over, after everything
\* done for any entry; and when Load has returned nil the pairs committed
\* are the pairs the set of loaded entries asks for, whatever the order of
\* the entries, so a child listed before its parent is linked as well.
C20_ParentPhaseAfterEntries ==
    manifestState = "list" =>
        /\ \A e \in At({"isget", "setparent"}) :
            /\ idx > Len(manifest)
            /\ pi >= 1
            /\ Len(parentLinks) = Cardinality(CreatedEntries)
            /\ \A i \in At(EntryWork \cup {"open"}) : i < e
        /\ (pc = "done" /\ err = "none") => CommittedPairs = WantedPairs

\* C20 witness: Load has returned nil after linking the image of its first
\* entry to the image of its second, its parent.
C20_Witness ==
    /\ pc = "done" /\ err = "none"
    /\ Len(manifest) = 2
    /\ manifest[1].Parent = ConfigOf(2).img
    /\ <<ConfigOf(1).img, ConfigOf(2).img>> \in CommittedPairs

\* The legacy archive's parent references form no cycle and all name
\* directories of the archive.
ParentsExist == \A j \in ldirs : j.Parent = "" \/ \E q \in ldirs : q.id = j.Parent

WellFormedLegacy == manifestState = "absent" /\ Acyclic /\ ParentsExist

\* The calls of one kind made for legacy directory d, and those that succeeded.
LegacyCalls(op, d) == {i \in At({op}) : trace[i].dir = d}
LegacyDone(op, d) == {i \in LegacyCalls(op, d) : trace[i].ok}

\* The parent named by the json of legacy directory d ("" when none).
ParentOfDir(d) == (CHOOSE j \in ldirs : j.id = d).Parent

\* C21: in a legacy Load of an archive whose parent references are acyclic
\* and name existing directories, no legacy id gets more than one layer
\* registration or image creation, and each gets exactly one of both once
\* all directories are loaded; the image of a parent is created before the
\* image of its child is asked for; a child's diff-ids and History are its
\* parent's followed by one more (a parentless image has one of each); and
\* the load map holds an id only with the image created for it, after the
\* set-parent of that image to its parent's image.
C21_LegacyLoadsEachOnce ==
    WellFormedLegacy =>
        /\ \A j \in ldirs :
            /\ Cardinality(LegacyCalls("register", j.id)) <= 1
            /\ Cardinality(LegacyCalls("create", j.id)) <= 1
            /\ pc \in {"lrepos", "ltags"} =>
                /\ Cardinality(LegacyDone("register", j.id)) = 1
                /\ Cardinality(LegacyDone("create", j.id)) = 1
        /\ \A i \in At({"create"}) :
            LET c == trace[i].id
                p == ParentOfDir(trace[i].dir)
            IN  IF p = ""
                    THEN Len(c.diffIDs) = 1 /\ Len(c.history) = 1
                    ELSE \E q \in LegacyDone("create", p) :
                            /\ q < i
                            /\ Len(c.diffIDs) = Len(trace[q].id.diffIDs) + 1
                            /\ SubSeq(c.diffIDs, 1, Len(c.diffIDs) - 1) = trace[q].id.diffIDs
                            /\ Len(c.history) = Len(trace[q].id.history) + 1
                            /\ SubSeq(c.history, 1, Len(c.history) - 1) = trace[q].id.history
        /\ \A e \in loadedMap :
            /\ \E i \in LegacyDone("create", e[1]) : trace[i].id = e[2]
            /\ ParentOfDir(e[1]) # "" =>
                \E i \in LegacyDone("setparent", e[1]), q \in LegacyDone("create", ParentOfDir(e[1])) :
                    /\ trace[i].id = e[2]
                    /\ trace[i].parent = trace[q].id
                    /\ q < i

\* C21 witness: a legacy Load has returned nil on an archive of three
\* directories, two of them children of the third.
C21_Witness ==
    /\ WellFormedLegacy /\ pc = "done" /\ err = "none"
    /\ Cardinality(ldirs) = 3
    /\ Cardinality({j \in ldirs : j.Parent # ""}) = 2
    /\ Cardinality(loadedMap) = 3

\* legacyLoad has decoded the repositories file.
RepositoriesRead ==
    /\ manifestState = "absent" /\ repos.present
    /\ \E i \in At({"open"}) : trace[i].s = "repositories"

\* The entries of the repositories file whose legacy id is not in the map.
UnknownTargets == {e \in repos.entries : ~Loaded(e[2])}

\* C22: in a legacy Load add-tag is called only when every directory of the
\* archive is in the load map, after every registration, creation and
\* set-parent, and only for a name:tag of the repositories file with the
\* image id the map holds for its legacy id; a Load that returns nil has
\* called it once for each name:tag of the file; and if the file names a
\* legacy id that is not in the map Load returns InvalidTargetID, and for no
\* other reason, with every image it created still in the image store.
C22_LegacyTagsAfterImages ==
    manifestState = "absent" =>
        /\ \A i \in At({"addtag"}) :
            /\ \A j \in ldirs : Loaded(j.id)
            /\ \A c \in At({"register", "create", "setparent", "release"}) : c < i
            /\ \E e \in repos.entries : trace[i].s = e[1] /\ trace[i].id = LoadedID(e[2])
            /\ trace[i].ok => trace[i].id \in images
        /\ (pc = "done" /\ err = "none") =>
            \A e \in repos.entries :
                /\ Cardinality({i \in At({"addtag"}) :
                        trace[i].s = e[1] /\ trace[i].id = LoadedID(e[2])}) = 1
                /\ (\E i \in At({"addtag"}) : trace[i].s = e[1] /\ trace[i].ok) =>
                        RefGet(e[1]) = LoadedID(e[2])
        /\ (RepositoriesRead /\ pc \in {"return", "done"}) =>
            IF UnknownTargets # {} THEN err = "InvalidTargetID" ELSE err = "none"
        /\ err = "InvalidTargetID" =>
            /\ RepositoriesRead /\ UnknownTargets # {}
            /\ \A i \in At({"create"}) : trace[i].ok => trace[i].id \in images

\* C22 witness: a legacy Load has returned InvalidTargetID after creating an
\* image and assigning the tag the repositories file gives it.
C22_Witness ==
    /\ manifestState = "absent" /\ pc = "done" /\ err = "InvalidTargetID"
    /\ \E i \in At({"create"}) : trace[i].ok
    /\ \E i \in At({"addtag"}) : trace[i].ok

\* legacyLoad is about to start a directory of the archive.
AtNextDir == manifestState = "absent" /\ pc = "ldirs" /\ di <= Len(ReadDir)

\* C23: the cancellation signal stops a legacy Load: when ctx is done and
\* legacyLoad is about to start a directory, Load returns Canceled instead,
\* with no file opened, no layer registered and no image created for that
\* directory.
C23_LegacyCanceled ==
    [][(AtNextDir /\ canceled) =>
            /\ pc' = "return" /\ err' = "Canceled"
            /\ trace' = trace]_vars

\* What the code does instead: cancellation changes nothing in a legacy
\* Load once the archive is staged; it never returns Canceled from there.
LegacyIgnoresCancel ==
    (manifestState = "absent" /\ err = "Canceled") => At({"readdir"}) = {}

\* Everything Load does other than releasing layers.
Work == EntryWork \cup {"open", "isget", "setparent", "readdir"}

\* C24: is.Create is called while Load still holds every layer it resolved
\* for the image.  On the manifest path a layer was resolved for every
\* diff-id of the entry before the create, and no layer is released before
\* Load returns: every release comes after everything else Load does, and
\* in a Load that returns nil after the whole parent-link phase.  On the
\* legacy path the layer of a directory was registered before its create and
\* is released only after it.
C24_LayersHeldAtCreate ==
    /\ manifestState # "absent" =>
        /\ \A i \in At({"create"}) :
            \A n \in 1..Len(DiffIDs(trace[i].k)) :
                \E e \in ResolvedBefore(trace[i].k, i) : Len(trace[e].chain) = n
        /\ \A r \in At({"release"}) :
            /\ pc \in {"return", "done"}
            /\ err = "none" => pi > Len(links)
            /\ \A i \in At(Work) : i < r
        /\ Len(deferred) + Cardinality(At({"release"}))
                = Cardinality({e \in At({"get", "register"}) : trace[e].ok})
    /\ manifestState = "absent" =>
        /\ \A i \in At({"create"}) :
            /\ \E e \in LegacyDone("register", trace[i].dir) : e < i
            /\ \A r \in LegacyCalls("release", trace[i].dir) : i < r
        /\ \A r \in At({"release"}) :
            \E i \in LegacyDone("create", trace[r].dir) :
                /\ i < r
                /\ trace[r].chain = ChainID(trace[i].id.diffIDs)

\* C24 witness: a Load of a manifest has returned nil after creating two
\* images, linking one to the other and then releasing the layers.
C24_Witness ==
    /\ manifestState = "list" /\ pc = "done" /\ err = "none"
    /\ Cardinality(CreatedEntries) = 2
    /\ \E i \in ManifestSetParents : trace[i].ok
    /\ Cardinality(At({"release"})) >= 2

\* The host cannot run the OS of the image of manifest entry k.
ForeignOS(k) == Readable(k) /\ ConfigOf(k).img.os # goos

\* Load of a manifest has returned, or is returning, PlatformUnsupported.
FailedOnPlatform == manifestState = "list" /\ err = "PlatformUnsupported"

\* C25 as stated: an entry the platform filter excludes never makes Load
\* fail on platform grounds: Load returns PlatformUnsupported only at an
\* entry that passes the filter, and passes over an excluded entry whatever
\* its OS.
C25_FilterBeforeOSCheckAsStated ==
    /\ FailedOnPlatform => ~Excluded(idx)
    /\ \A k \in 1..Len(manifest) :
        (Excluded(k) /\ EntryOver(k) /\ idx = k) => err = "Canceled"

\* C25 amended: the host-OS check is applied to every entry whose config
\* Load reads, before the platform filter: Load returns PlatformUnsupported
\* exactly at the first entry whose OS the host cannot run, excluded by the
\* filter or not, with nothing done for that entry or any later one and the
\* images of the entries before it in the image store; an excluded entry
\* whose OS the host can run never makes Load fail.
C25_OSCheckBeforeFilter ==
    manifestState = "list" =>
        /\ FailedOnPlatform =>
            /\ ForeignOS(idx)
            /\ \A i \in At(EntryWork) : trace[i].k < idx
            /\ \A i \in At({"create"}) : trace[i].ok => trace[i].id \in images
        /\ \A k \in 1..Len(manifest) :
            /\ (k < idx /\ idx >= 1) => ~ForeignOS(k)
            /\ (ForeignOS(k) /\ EntryOver(k) /\ idx = k) => err \in {"PlatformUnsupported", "Canceled"}
            /\ (Excluded(k) /\ ~ForeignOS(k) /\ EntryOver(k) /\ idx = k) => err = "Canceled"

\* C25 witness: Load has returned PlatformUnsupported at its second entry,
\* which the platform filter excludes, after loading its first.
C25_Witness ==
    /\ pc = "done" /\ FailedOnPlatform
    /\ idx = 2 /\ Excluded(2)
    /\ 1 \in CreatedEntries /\ EventsOf(1) # {}

====
